---------------------------- MODULE Spec2Model ----------------------------
(***************************************************************************)
(* A model of TaffoUtils/InputInfo.h: the fixed point type FPType, the     *)
(* annotation nodes InputInfo (scalar) and StructInfo (aggregate) held     *)
(* through std::shared_ptr, shape derivation from an llvm::Type, index     *)
(* resolution, clone, and the metadata codec.                              *)
(***************************************************************************)
EXTENDS Integers, Sequences, FiniteSets, TLC

VARIABLES
    pc,      \* position of the calling program in its scenario
    args,    \* arguments of the call under way
    fp,      \* the FPType object under test (by value), or NoFP
    str,     \* the text produced by the last toString()
    heap,    \* obj: address -> object alive; blk: shared_ptr control blocks;
             \* na, nb: next fresh address / block; ub: first undefined step
    typ,     \* the llvm::Type descriptor the caller works with
    own,     \* the caller's shared_ptr to the source annotation
    res,     \* the caller's shared_ptr holding the last returned node
    pre,     \* the heap as it was when the last call began
    md       \* the metadata node produced by the last encode, the decoded value

vars == <<pc, args, fp, str, heap, typ, own, res, pre, md>>

(***************************************************************************)
(* Bounds of the model.                                                    *)
(***************************************************************************)
MaxWidth == 33
MaxPoint == 34
MaxTypeNodes == 5
MaxPathLen == 2
MaxIdx == 1
MaxCalls == 2
MaxCloneNodes == 3
MaxOps == 2
MaxCodecNodes == 3

(***************************************************************************)
(* 32-bit unsigned arithmetic, kept as two 16-bit limbs [hi, lo].          *)
(***************************************************************************)
Limb == 2^16

U32(n) == [hi |-> n \div Limb, lo |-> n % Limb]

NegU32(u) ==
    [hi |-> (Limb - 1 - u.hi + (IF u.lo = 0 THEN 1 ELSE 0)) % Limb,
     lo |-> (Limb - u.lo) % Limb]

SubU32(a, b) ==
    [hi |-> (a.hi - b.hi - (IF a.lo < b.lo THEN 1 ELSE 0)) % Limb,
     lo |-> (a.lo - b.lo) % Limb]

\* unsigned -> int conversion (modular)
U32ToInt(u) ==
    IF u.hi < Limb \div 2
    THEN u.hi * Limb + u.lo
    ELSE LET n == NegU32(u) IN (0 - n.hi) * Limb - n.lo

\* int -> unsigned conversion (modular)
IntToU32(i) == IF i >= 0 THEN U32(i) ELSE NegU32(U32(0 - i))

Abs(i) == IF i < 0 THEN 0 - i ELSE i

DigitChar(d) == <<"0", "1", "2", "3", "4", "5", "6", "7", "8", "9">>[d + 1]

Div10(u) ==
    LET t == (u.hi % 10) * Limb + u.lo
    IN  [q |-> [hi |-> u.hi \div 10, lo |-> t \div 10], r |-> t % 10]

\* operator<< of an unsigned value: its decimal digits
RECURSIVE DecU32(_)
DecU32(u) ==
    LET d == Div10(u)
    IN  IF d.q.hi = 0 /\ d.q.lo = 0
        THEN DigitChar(d.r)
        ELSE DecU32(d.q) \o DigitChar(d.r)


(***************************************************************************)
(* FPType                                                                  *)
(***************************************************************************)
NoFP == [Width |-> 0, PointPos |-> 0, none |-> TRUE]

FPTypeCtorU_NoNeg(W, P, S) ==
    [Width |-> U32ToInt(U32(W)), PointPos |-> P]

\* FPType(unsigned Width, unsigned PointPos, bool Signed)
FPTypeCtorU(W, P, S) ==
    [Width |-> U32ToInt(IF S THEN NegU32(U32(W)) ELSE U32(W)), PointPos |-> P]

\* FPType(int Width, unsigned PointPos)
FPTypeCtorI(W, P) == [Width |-> W, PointPos |-> P]

getWidth(t) == Abs(t.Width)
getSWidth(t) == t.Width
getPointPos(t) == t.PointPos
isSigned(t) == t.Width < 0

\* std::abs(Width)-PointPos is int - unsigned: computed and printed as unsigned
FPToString(t) ==
    (IF t.Width < 0 THEN "s" ELSE "u")
        \o DecU32(SubU32(IntToU32(Abs(t.Width)), U32(t.PointPos)))
        \o "_" \o DecU32(U32(t.PointPos)) \o "fixp"

FPEquals(a, b) == a.Width = b.Width /\ a.PointPos = b.PointPos

FPClone(t) == FPTypeCtorI(t.Width, t.PointPos)

(***************************************************************************)
(* llvm::Type as seen through the three queries the header uses.           *)
(***************************************************************************)
ScalarTy == [k |-> "scalar", e |-> << >>]
StructTy(elems) == [k |-> "struct", e |-> elems]
ArrayTy(elem) == [k |-> "array", e |-> <<elem>>]

getNumContainedTypes(t) == Len(t.e)
isStructTy(t) == t.k = "struct"

RECURSIVE TypesN(_), TypeSeqsN(_)
\* the type descriptors with exactly n nodes
TypesN(n) ==
    IF n = 1 THEN {ScalarTy, StructTy(<< >>)}
    ELSE {ArrayTy(c) : c \in TypesN(n - 1)}
            \cup {StructTy(s) : s \in TypeSeqsN(n - 1)}
\* the non-empty sequences of type descriptors with n nodes in all
TypeSeqsN(n) ==
    {<<t>> : t \in TypesN(n)}
        \cup UNION {{<<t>> \o s : t \in TypesN(k), s \in TypeSeqsN(n - k)}
                        : k \in 1..(n - 1)}

TypeSet == UNION {TypesN(n) : n \in 1..MaxTypeNodes}

\* what an out-of-range getContainedType hands back when it does not stop:
\* a pointer to no llvm::Type the program knows
WildTy == [k |-> "wild", e |-> << >>]

\* getContainedType(i): in range, the element type; out of range, the
\* "Index out of range!" assertion stops the run, or the read past the array
\* of contained types yields some pointer
ContainedTypeOutcomes(t, i) ==
    IF i < Len(t.e)
    THEN {[halt |-> FALSE, ub |-> "none", t |-> t.e[i + 1]]}
    ELSE {[halt |-> TRUE, ub |-> "assert:getContainedType", t |-> t]}
            \cup {[halt |-> FALSE, ub |-> "oob:getContainedType", t |-> WildTy]}

(***************************************************************************)
(* The heap and std::shared_ptr.                                           *)
(***************************************************************************)
Null == 0

\* a shared_ptr or pointer read from memory that holds none
Wild == 0 - 1

EmptyHeap == [obj |-> << >>, blk |-> << >>, na |-> 1, nb |-> 1, ub |-> "none"]

NoMD == [tag |-> "none"]

Without(f, x) == [y \in DOMAIN f \ {x} |-> f[y]]

SetUB(h, u) == IF h.ub = "none" THEN [h EXCEPT !.ub = u] ELSE h

\* a new object at a fresh address (h.na)
Alloc(h, o) == [h EXCEPT !.obj = (h.na :> o) @@ h.obj, !.na = h.na + 1]

\* shared_ptr<T>(p) / make_shared: a new control block (h.nb) owning a
NewBlock(h, a) ==
    [h EXCEPT !.blk = (h.nb :> [ptr |-> a, cnt |-> 1]) @@ h.blk, !.nb = h.nb + 1]

\* shared_ptr::get()
Get(h, s) ==
    IF s = Null THEN Null
    ELSE IF s \in DOMAIN h.blk THEN h.blk[s].ptr ELSE Wild

Alive(h, s) == s # Null /\ s \in DOMAIN h.blk /\ h.blk[s].ptr \in DOMAIN h.obj

\* copy of a shared_ptr
Copy(h, s) ==
    IF s = Null THEN h
    ELSE IF s \notin DOMAIN h.blk THEN SetUB(h, "use-after-free")
    ELSE [h EXCEPT !.blk[s].cnt = h.blk[s].cnt + 1]

\* the shared_ptr members an object holds, in destruction order
Members(o) ==
    IF o.kind = "K_Struct" THEN o.Fields
    ELSE IF o.kind = "K_Field" THEN <<o.IError, o.IRange, o.IType>>
    ELSE << >>

RECURSIVE Release(_, _), ReleaseAll(_, _)
\* destruction or reset of a shared_ptr: the last owner of a block deletes
\* the object, which destroys the object's own shared_ptr members.  A block
\* made by shared_ptr<T>(p) deletes p: undefined when p was not allocated by
\* new (make_shared storage), or when the object is already gone.
Release(h, s) ==
    IF s = Null THEN h
    ELSE IF s \notin DOMAIN h.blk THEN SetUB(h, "use-after-free")
    ELSE IF h.blk[s].cnt > 1 THEN [h EXCEPT !.blk[s].cnt = h.blk[s].cnt - 1]
    ELSE LET a == h.blk[s].ptr
             h1 == [h EXCEPT !.blk = Without(h.blk, s)]
         IN  IF a \notin DOMAIN h1.obj THEN SetUB(h1, "double-delete")
             ELSE LET o == h1.obj[a]
                      h2 == IF o.alloc = "new" \/ o.home = s
                            THEN h1 ELSE SetUB(h1, "delete-of-make_shared")
                  IN  ReleaseAll([h2 EXCEPT !.obj = Without(h2.obj, a)],
                                 Members(o))
ReleaseAll(h, ss) ==
    IF ss = << >> THEN h ELSE ReleaseAll(Release(h, Head(ss)), Tail(ss))

(***************************************************************************)
(* Annotation nodes: MDInfo, InputInfo (K_Field), StructInfo (K_Struct).   *)
(***************************************************************************)
\* std::make_shared<StructInfo>(StructInfo(fields)): object and control
\* block in one allocation, the block (h.nb) being the object's home
MakeSharedStruct(h, fields) ==
    LET o == [kind |-> "K_Struct", Fields |-> fields,
              alloc |-> "make_shared", home |-> h.nb]
    IN  [h |-> NewBlock(Alloc(h, o), h.na), s |-> h.nb]

\* new StructInfo(fields), a raw pointer
NewStruct(h, fields) ==
    LET o == [kind |-> "K_Struct", Fields |-> fields,
              alloc |-> "new", home |-> Null]
    IN  [h |-> Alloc(h, o), a |-> h.na]

\* new InputInfo(T, R, Error), a raw pointer
NewInputInfo(h, T, R, Error) ==
    LET o == [kind |-> "K_Field", IType |-> T, IRange |-> R, IError |-> Error,
              alloc |-> "new", home |-> Null]
    IN  [h |-> Alloc(h, o), a |-> h.na]

\* new FPType / new Range / new double, a raw pointer
NewValue(h, v) ==
    [h |-> Alloc(h, v @@ [alloc |-> "new", home |-> Null]), a |-> h.na]

\* std::shared_ptr<T>(p) of a raw pointer; no object for nullptr
SharedOf(h, a) ==
    IF a = Null THEN [h |-> h, s |-> Null] ELSE [h |-> NewBlock(h, a), s |-> h.nb]

size(h, a) == Len(h.obj[a].Fields)

\* getField(I) of the StructInfo at a
getField(h, a, I) == h.obj[a].Fields[I + 1]

RECURSIVE constructFromLLVMType(_, _), ConstructFields(_, _, _, _)

\* the loop of constructFromLLVMType: fields.push_back(construct(element i))
ConstructFields(h, t, i, fields) ==
    IF i >= getNumContainedTypes(t) THEN [h |-> h, fields |-> fields]
    ELSE LET r == constructFromLLVMType(h, t.e[i + 1])
         IN  ConstructFields(r.h, t, i + 1, Append(fields, r.s))

constructFromLLVMType_Wraps(h, t) ==
    IF getNumContainedTypes(t) = 0 THEN [h |-> h, s |-> Null]
    ELSE IF isStructTy(t)
    THEN LET f == ConstructFields(h, t, 0, << >>)
         IN  MakeSharedStruct(f.h, f.fields)
    ELSE LET r == constructFromLLVMType(h, t.e[1])
         IN  MakeSharedStruct(r.h, <<r.s>>)

\* StructInfo::constructFromLLVMType(t): [h: the heap after, s: the result]
constructFromLLVMType(h, t) ==
    IF getNumContainedTypes(t) = 0 THEN [h |-> h, s |-> Null]
    ELSE IF isStructTy(t)
    THEN LET f == ConstructFields(h, t, 0, << >>)
         IN  MakeSharedStruct(f.h, f.fields)
    ELSE constructFromLLVMType(h, t.e[1])

(***************************************************************************)
(* StructInfo::resolveFromIndexList.  A walk state is                      *)
(* [h, rt: resolvedType, ri: resolvedInfo, halt: the run was stopped].     *)
(***************************************************************************)
Halted(w, u) == [w EXCEPT !.halt = TRUE, !.h = SetUB(w.h, u)]

\* a step whose effect on the heap was undefined either stops the run there
\* (the allocator or an assertion aborts) or goes on
AfterUB(w0, w1) ==
    IF w0.h.ub = "none" /\ w1.h.ub # "none"
    THEN {w1, [w1 EXCEPT !.halt = TRUE]}
    ELSE {w1}

\* llvm::cast<StructInfo>(resolvedInfo.get())->getField(idx), assigned to
\* resolvedInfo (the copy of the slot is taken before the old value is let go)
DescendSlot(w, idx) ==
    LET h == w.h
        a == Get(h, w.ri)
    IN  IF a \notin DOMAIN h.obj
        THEN {[w EXCEPT !.h = SetUB(h, "use-after-free"), !.ri = Wild],
              Halted(w, "use-after-free")}
        ELSE IF h.obj[a].kind # "K_Struct"
        THEN {Halted(w, "assert:cast<StructInfo>")}
                \cup {[w EXCEPT !.h = SetUB(h, "bad-cast"), !.ri = Wild]}
        ELSE IF idx >= size(h, a)
        THEN {Halted(w, "assert:Fields[idx]")}
                \cup {[w EXCEPT !.h = SetUB(h, "oob:Fields[idx]"), !.ri = Wild]}
        ELSE LET f == h.obj[a].Fields[idx + 1]
                 w1 == [w EXCEPT !.h = Release(Copy(h, f), w.ri), !.ri = f]
             IN  AfterUB(w, w1)

\* one iteration of the loop over indices
ResolveStep(w, idx) ==
    IF w.halt \/ w.ri = Null THEN {w}
    ELSE IF w.rt = WildTy
    THEN \* every query of a wild type pointer is a read of unknown memory
         {w, Halted(w, "wild-type")} \cup DescendSlot(w, idx)
    ELSE UNION {
            IF o.halt THEN {Halted(w, o.ub)}
            ELSE LET w1 == [w EXCEPT !.rt = o.t,
                                     !.h = IF o.ub = "none" THEN w.h
                                           ELSE SetUB(w.h, o.ub)]
                 IN  IF isStructTy(w.rt) THEN DescendSlot(w1, idx) ELSE {w1}
            : o \in ContainedTypeOutcomes(w.rt, idx)}

RECURSIVE ResolveWalk(_, _)
ResolveWalk(ws, indices) ==
    IF indices = << >> THEN ws
    ELSE ResolveWalk(UNION {ResolveStep(w, Head(indices)) : w \in ws},
                     Tail(indices))

\* this->resolveFromIndexList(type, indices), `this` being the object the
\* shared_ptr `this` of the caller points to: the set of possible outcomes.
\* std::shared_ptr<MDInfo> resolvedInfo(this) is a new control block on the
\* receiver, next to the one the caller's shared_ptr already has.
resolveFromIndexList(h, this, type, indices) ==
    LET r == SharedOf(h, Get(h, this))
    IN  ResolveWalk({[h |-> r.h, rt |-> type, ri |-> r.s, halt |-> FALSE]},
                    indices)

(***************************************************************************)
(* Annotations as values (trees), and the heap built from one.             *)
(***************************************************************************)
Absent == [kind |-> "nil"]
FPValue(t) == [kind |-> "K_FPType", Width |-> t.Width, PointPos |-> t.PointPos]
RangeValue(Min, Max) == [kind |-> "Range", Min |-> Min, Max |-> Max]
DoubleValue(v) == [kind |-> "double", v |-> v]
FieldValue(T, R, E) == [kind |-> "K_Field", IType |-> T, IRange |-> R, IError |-> E]
StructValue(fs) == [kind |-> "K_Struct", Fields |-> fs]

RECURSIVE Build(_, _), BuildAll(_, _, _)
\* the program's construction of the annotation v, every object allocated by
\* new and owned by one shared_ptr: [h, s]
Build(h, v) ==
    IF v.kind = "nil" THEN [h |-> h, s |-> Null]
    ELSE IF v.kind = "K_Struct"
    THEN LET f == BuildAll(h, v.Fields, << >>)
             n == NewStruct(f.h, f.ss)
         IN  SharedOf(n.h, n.a)
    ELSE IF v.kind = "K_Field"
    THEN LET f == BuildAll(h, <<v.IType, v.IRange, v.IError>>, << >>)
             n == NewInputInfo(f.h, f.ss[1], f.ss[2], f.ss[3])
         IN  SharedOf(n.h, n.a)
    ELSE LET n == NewValue(h, v) IN SharedOf(n.h, n.a)
BuildAll(h, vs, ss) ==
    IF vs = << >> THEN [h |-> h, ss |-> ss]
    ELSE LET r == Build(h, Head(vs))
         IN  BuildAll(r.h, Tail(vs), Append(ss, r.s))

\* the same, the root aggregate held by make_shared
BuildMakeShared(h, v) ==
    LET f == BuildAll(h, v.Fields, << >>) IN MakeSharedStruct(f.h, f.ss)

RECURSIVE ValueOf(_, _)
\* the annotation a shared_ptr leads to, read off the heap
ValueOf(h, s) ==
    IF s = Null THEN Absent
    ELSE IF ~Alive(h, s) THEN [kind |-> "dangling"]
    ELSE LET o == h.obj[Get(h, s)]
         IN  IF o.kind = "K_Struct"
             THEN StructValue([i \in 1..Len(o.Fields) |-> ValueOf(h, o.Fields[i])])
             ELSE IF o.kind = "K_Field"
             THEN FieldValue(ValueOf(h, o.IType), ValueOf(h, o.IRange),
                             ValueOf(h, o.IError))
             ELSE [f \in DOMAIN o \ {"alloc", "home"} |-> o[f]]

RECURSIVE Reach(_, _)
\* the addresses of the objects a shared_ptr leads to, itself included
Reach(h, s) ==
    IF ~Alive(h, s) THEN {}
    ELSE LET a == Get(h, s)
             ms == Members(h.obj[a])
         IN  {a} \cup UNION {Reach(h, ms[i]) : i \in 1..Len(ms)}

(***************************************************************************)
(* clone() and toString() of the annotation nodes.                         *)
(***************************************************************************)
InputInfoClone_SharesRange(h, a) ==
    LET o == h.obj[a]
        t == IF Get(h, o.IType) # Null
             THEN NewValue(h, FPValue(FPClone(h.obj[Get(h, o.IType)])))
             ELSE [h |-> h, a |-> Null]
        NewIType == SharedOf(t.h, t.a)
        h1 == Copy(NewIType.h, o.IRange)
        e == IF Get(h1, o.IError) # Null
             THEN NewValue(h1, DoubleValue(h1.obj[Get(h1, o.IError)].v))
             ELSE [h |-> h1, a |-> Null]
        NewIError == SharedOf(e.h, e.a)
    IN  NewInputInfo(NewIError.h, NewIType.s, o.IRange, NewIError.s)

\* InputInfo::clone(): [h, a: the raw pointer returned]
InputInfoClone(h, a) ==
    LET o == h.obj[a]
        t == IF Get(h, o.IType) # Null
             THEN NewValue(h, FPValue(FPClone(h.obj[Get(h, o.IType)])))
             ELSE [h |-> h, a |-> Null]
        NewIType == SharedOf(t.h, t.a)
        r == IF Get(NewIType.h, o.IRange) # Null
             THEN LET x == NewIType.h.obj[Get(NewIType.h, o.IRange)]
                  IN  NewValue(NewIType.h, RangeValue(x.Min, x.Max))
             ELSE [h |-> NewIType.h, a |-> Null]
        NewIRange == SharedOf(r.h, r.a)
        e == IF Get(NewIRange.h, o.IError) # Null
             THEN NewValue(NewIRange.h,
                           DoubleValue(NewIRange.h.obj[Get(NewIRange.h, o.IError)].v))
             ELSE [h |-> NewIRange.h, a |-> Null]
        NewIError == SharedOf(e.h, e.a)
    IN  NewInputInfo(NewIError.h, NewIType.s, NewIRange.s, NewIError.s)

RECURSIVE CloneNode(_, _), CloneFields(_, _, _)

\* the loop of StructInfo::clone over Fields
CloneFields(h, olds, newFields) ==
    IF olds = << >> THEN [h |-> h, fields |-> newFields]
    ELSE LET oldF == Head(olds)
             c == IF Get(h, oldF) # Null
                  THEN LET n == CloneNode(h, Get(h, oldF)) IN SharedOf(n.h, n.a)
                  ELSE [h |-> h, s |-> Null]
         IN  CloneFields(c.h, Tail(olds), Append(newFields, c.s))

\* StructInfo::clone(): [h, a: the raw pointer returned]
StructInfoClone(h, a) ==
    LET f == CloneFields(h, h.obj[a].Fields, << >>)
    IN  NewStruct(f.h, f.fields)

\* MDInfo::clone(), virtual
CloneNode(h, a) ==
    IF h.obj[a].kind = "K_Struct" THEN StructInfoClone(h, a)
    ELSE InputInfoClone(h, a)

\* operator<< of a double, for the integral values of small magnitude
DoubleToString(v) ==
    IF v < 0 THEN "-" \o DecU32(U32(0 - v)) ELSE DecU32(U32(v))

\* InputInfo::toString()
InputInfoToString(h, a) ==
    LET o == h.obj[a]
        t == IF Get(h, o.IType) # Null
             THEN "type(" \o FPToString(h.obj[Get(h, o.IType)]) \o ")" ELSE ""
        r == IF Get(h, o.IRange) # Null
             THEN (IF t # "" THEN " " ELSE "")
                    \o "range(" \o DoubleToString(h.obj[Get(h, o.IRange)].Min)
                    \o ", " \o DoubleToString(h.obj[Get(h, o.IRange)].Max) \o ")"
             ELSE ""
        e == IF Get(h, o.IError) # Null
             THEN (IF t # "" \/ r # "" THEN " " ELSE "")
                    \o "error(" \o DoubleToString(h.obj[Get(h, o.IError)].v) \o ")"
             ELSE ""
    IN  "scalar(" \o t \o r \o e \o ")"

RECURSIVE NodeToString(_, _), FieldsToString(_, _, _)
\* the loop of StructInfo::toString over Fields
FieldsToString(h, fs, first) ==
    IF fs = << >> THEN ""
    ELSE (IF first THEN "" ELSE ", ")
            \o (IF Get(h, Head(fs)) # Null
                THEN NodeToString(h, Get(h, Head(fs))) ELSE "void()")
            \o FieldsToString(h, Tail(fs), FALSE)
\* MDInfo::toString(), virtual
NodeToString(h, a) ==
    IF h.obj[a].kind = "K_Struct"
    THEN "struct(" \o FieldsToString(h, h.obj[a].Fields, TRUE) \o ")"
    ELSE InputInfoToString(h, a)

ReplaceSlotOp_Erases(h, a, i, s) ==
    LET old == h.obj[a].Fields[i]
        h1 == [h EXCEPT !.obj[a].Fields =
                    [k \in 1..(Len(@) - 1) |-> IF k < i THEN @[k] ELSE @[k + 1]]]
    IN  Release(h1, old)

\* *(S.begin() + (i-1)) = s: the slot takes s and lets its old content go
ReplaceSlotOp(h, a, i, s) ==
    LET old == h.obj[a].Fields[i]
        h1 == [h EXCEPT !.obj[a].Fields[i] = s]
    IN  Release(h1, old)

\* F.IType = s, F.IRange = s or F.IError = s
AssignMemberOp(h, a, f, s) ==
    LET old == h.obj[a][f]
        h1 == [h EXCEPT !.obj[a][f] = s]
    IN  Release(h1, old)

\* all sequences over S of length n
RECURSIVE SeqsOfLen(_, _)
SeqsOfLen(S, n) ==
    IF n = 0 THEN {<< >>}
    ELSE {Append(q, x) : q \in SeqsOfLen(S, n - 1), x \in S}

Paths == UNION {SeqsOfLen(0..MaxIdx, n) : n \in 0..MaxPathLen}

(***************************************************************************)
(* The caller's steps around resolveFromIndexList.                         *)
(***************************************************************************)
NoCall == [op |-> "none", n |-> 0, m |-> 0, path |-> << >>, prev |-> Null]

\* res = own->resolveFromIndexList(typ, p), res being empty before; a later
\* call repeats the arguments of the first
Resolve ==
    /\ pc = "ready"
    /\ own # Null
    /\ args.n < MaxCalls /\ args.m < MaxOps
    /\ \E p \in (IF args.n = 0 THEN Paths ELSE {args.path}) :
         /\ args' = [args EXCEPT !.op = "resolve", !.n = args.n + 1,
                                  !.m = args.m + 1, !.path = p]
         /\ pre' = IF args.n = 0 THEN heap ELSE pre
         /\ IF Alive(heap, own) /\ heap.obj[Get(heap, own)].kind = "K_Struct"
            THEN \E w \in resolveFromIndexList(heap, own, typ, p) :
                    /\ heap' = w.h
                    /\ res' = w.ri
                    /\ pc' = IF w.halt THEN "aborted" ELSE "resolved"
            ELSE \* a member call on an object that is gone
                 /\ heap' = SetUB(heap, "use-after-free")
                 /\ res' = Wild
                 /\ pc' \in {"aborted", "resolved"}
    /\ UNCHANGED <<fp, str, typ, own, md>>

\* the caller notes which node it got and lets the returned shared_ptr go
DropResult ==
    /\ pc \in {"resolved", "cloned"}
    /\ LET h1 == Release(heap, res)
       IN  /\ heap' = h1
           /\ pc' \in IF heap.ub = "none" /\ h1.ub # "none"
                      THEN {"crashed", "ready"} ELSE {"ready"}
    /\ args' = [args EXCEPT !.prev = Get(heap, res)]
    /\ res' = Null
    /\ UNCHANGED <<fp, str, typ, own, pre, md>>

(***************************************************************************)
(* Scenario Shape: derive the skeleton of a type, then resolve paths in it.*)
(***************************************************************************)
InitShape ==
    /\ pc = "shape_start"
    /\ typ \in TypeSet
    /\ args = NoCall
    /\ fp = NoFP /\ str = ""
    /\ heap = EmptyHeap /\ own = Null /\ res = Null
    /\ pre = EmptyHeap /\ md = NoMD

\* own = StructInfo::constructFromLLVMType(typ)
Construct ==
    /\ pc = "shape_start"
    /\ LET r == constructFromLLVMType(heap, typ)
       IN  heap' = r.h /\ own' = r.s
    /\ pc' = "ready"
    /\ UNCHANGED <<args, fp, str, typ, res, pre, md>>

NextShape == Construct \/ Resolve \/ DropResult

SpecShape == InitShape /\ [][NextShape]_vars

(***************************************************************************)
(* Scenario FP: construct a fixed point type, query it, print it.          *)
(***************************************************************************)
InitFP ==
    /\ pc = "fp_start"
    /\ args \in [op : {"FPTypeU"}, W : 0..MaxWidth, P : 0..MaxPoint, S : BOOLEAN]
                \cup [op : {"FPTypeI"}, W : (0 - MaxWidth)..MaxWidth, P : 0..MaxPoint]
    /\ fp = NoFP
    /\ str = ""
    /\ heap = EmptyHeap /\ typ = ScalarTy /\ own = Null /\ res = Null
    /\ pre = EmptyHeap /\ md = NoMD

FPConstruct ==
    /\ pc = "fp_start"
    /\ fp' = IF args.op = "FPTypeU"
             THEN FPTypeCtorU(args.W, args.P, args.S)
             ELSE FPTypeCtorI(args.W, args.P)
    /\ pc' = "fp_built"
    /\ UNCHANGED <<args, str, heap, typ, own, res, pre, md>>

FPPrint ==
    /\ pc = "fp_built"
    /\ str' = FPToString(fp)
    /\ pc' = "fp_printed"
    /\ UNCHANGED <<args, fp, heap, typ, own, res, pre, md>>

NextFP == FPConstruct \/ FPPrint

SpecFP == InitFP /\ [][NextFP]_vars


(***************************************************************************)
(* Scenario Resolve: an aggregate annotation matching a type, built by the *)
(* caller, and paths resolved in it.                                       *)
(***************************************************************************)
EmptyField == FieldValue(Absent, Absent, Absent)

RECURSIVE Matching(_, _), MatchingSeqs(_, _)
\* the annotations that mirror type t, leaves taken from the set leaves
Matching(t, leaves) ==
    IF t.k = "scalar" THEN {Absent} \cup leaves
    ELSE IF t.k = "struct"
    THEN {Absent} \cup {StructValue(fs) : fs \in MatchingSeqs(t.e, leaves)}
    ELSE Matching(t.e[1], leaves)
MatchingSeqs(ts, leaves) ==
    IF ts = << >> THEN {<< >>}
    ELSE {<<v>> \o fs : v \in Matching(Head(ts), leaves),
                        fs \in MatchingSeqs(Tail(ts), leaves)}

InitResolve ==
    /\ pc = "ready"
    /\ typ \in TypeSet
    /\ \E v \in Matching(typ, {EmptyField}), mk \in {"new", "make_shared"} :
         /\ v.kind = "K_Struct"
         /\ LET r == IF mk = "new" THEN Build(EmptyHeap, v)
                     ELSE BuildMakeShared(EmptyHeap, v)
            IN  heap = r.h /\ own = r.s
    /\ args = NoCall
    /\ fp = NoFP /\ str = "" /\ res = Null
    /\ pre = EmptyHeap /\ md = NoMD

NextResolve == Resolve \/ DropResult

SpecResolve == InitResolve /\ [][NextResolve]_vars

(***************************************************************************)
(* Scenario Clone: an annotation built by the caller, cloned, the clone    *)
(* then changed.  Scenario Size adds the other operations of StructInfo.   *)
(***************************************************************************)
TheType == FPValue(FPTypeCtorI(0 - 32, 16))
TheRange == RangeValue(0 - 1, 2)
TheError == DoubleValue(0)
OtherType == FPValue(FPTypeCtorI(16, 8))
OtherRange == RangeValue(5, 4)
OtherError == DoubleValue(9)

\* the eight scalar annotations by presence of type, range and error
AllFields ==
    {FieldValue(t, r, e) : t \in {Absent, TheType}, r \in {Absent, TheRange},
                           e \in {Absent, TheError}}
SomeFields ==
    {FieldValue(TheType, TheRange, TheError), FieldValue(Absent, TheRange, Absent)}

RECURSIVE RootIsScalar(_)
RootIsScalar(t) == t.k = "scalar" \/ (t.k = "array" /\ RootIsScalar(t.e[1]))

CloneTypeSet == UNION {TypesN(n) : n \in 1..MaxCloneNodes}

InitClone ==
    /\ pc = "ready"
    /\ typ \in CloneTypeSet
    /\ \E v \in Matching(typ, IF RootIsScalar(typ) THEN AllFields ELSE SomeFields) :
         /\ v # Absent
         /\ LET r == Build(EmptyHeap, v) IN heap = r.h /\ own = r.s
    /\ args = NoCall
    /\ fp = NoFP /\ str = "" /\ res = Null
    /\ pre = EmptyHeap /\ md = NoMD

\* res = std::shared_ptr<MDInfo>(own->clone())
Clone ==
    /\ pc = "ready"
    /\ args.m < MaxOps
    /\ Alive(heap, own)
    /\ LET n == CloneNode(heap, Get(heap, own))
           r == SharedOf(n.h, n.a)
       IN  heap' = r.h /\ res' = r.s
    /\ pre' = heap
    /\ pc' = "cloned"
    /\ args' = [args EXCEPT !.op = "clone", !.m = args.m + 1]
    /\ UNCHANGED <<fp, str, typ, own, md>>

\* a scalar annotation of the clone gets a member reassigned
AssignField ==
    /\ pc = "cloned"
    /\ args.m < MaxOps
    /\ \E a \in Reach(heap, res), f \in {"IType", "IRange", "IError"}, fresh \in BOOLEAN :
         /\ heap.obj[a].kind = "K_Field"
         /\ LET v == IF ~fresh THEN Absent
                     ELSE IF f = "IType" THEN OtherType
                     ELSE IF f = "IRange" THEN OtherRange ELSE OtherError
                b == Build(heap, v)
            IN  heap' = AssignMemberOp(b.h, a, f, b.s)
    /\ args' = [args EXCEPT !.op = "assign", !.m = args.m + 1]
    /\ UNCHANGED <<pc, fp, str, typ, own, res, pre, md>>

\* an aggregate of the clone gets a slot replaced through begin()/end()
ReplaceSlot ==
    /\ pc = "cloned"
    /\ args.m < MaxOps
    /\ \E a \in Reach(heap, res), v \in {Absent, EmptyField} :
         /\ heap.obj[a].kind = "K_Struct"
         /\ \E i \in 1..size(heap, a) :
              LET b == Build(heap, v) IN heap' = ReplaceSlotOp(b.h, a, i, b.s)
    /\ args' = [args EXCEPT !.op = "replace", !.m = args.m + 1]
    /\ UNCHANGED <<pc, fp, str, typ, own, res, pre, md>>

\* a Range or an error of the clone is changed in place
SetValue ==
    /\ pc = "cloned"
    /\ args.m < MaxOps
    /\ \E a \in Reach(heap, res) :
         \/ /\ heap.obj[a].kind = "Range"
            /\ heap' = [heap EXCEPT !.obj[a].Min = OtherRange.Min,
                                    !.obj[a].Max = OtherRange.Max]
         \/ /\ heap.obj[a].kind = "double"
            /\ heap' = [heap EXCEPT !.obj[a].v = OtherError.v]
    /\ args' = [args EXCEPT !.op = "setvalue", !.m = args.m + 1]
    /\ UNCHANGED <<pc, fp, str, typ, own, res, pre, md>>

NextClone == Clone \/ AssignField \/ ReplaceSlot \/ SetValue

SpecClone == InitClone /\ [][NextClone]_vars

\* res = own->getField(i)
GetField ==
    /\ pc = "ready"
    /\ args.m < MaxOps
    /\ Alive(heap, own)
    /\ heap.obj[Get(heap, own)].kind = "K_Struct"
    /\ \E i \in 0..MaxIdx :
         /\ i < size(heap, Get(heap, own))
         /\ res' = getField(heap, Get(heap, own), i)
         /\ heap' = Copy(heap, getField(heap, Get(heap, own), i))
    /\ pc' = "resolved"
    /\ args' = [args EXCEPT !.op = "getField", !.m = args.m + 1]
    /\ UNCHANGED <<fp, str, typ, own, pre, md>>

\* str = own->toString()
CallToString ==
    /\ pc = "ready"
    /\ args.m < MaxOps
    /\ Alive(heap, own)
    /\ str' = NodeToString(heap, Get(heap, own))
    /\ args' = [args EXCEPT !.op = "toString", !.m = args.m + 1]
    /\ UNCHANGED <<pc, fp, heap, typ, own, res, pre, md>>

\* any use of own once the object it points to is gone
UseAfterFree ==
    /\ pc = "ready"
    /\ own # Null /\ ~Alive(heap, own)
    /\ heap' = SetUB(heap, "use-after-free")
    /\ pc' = "crashed"
    /\ UNCHANGED <<args, fp, str, typ, own, res, pre, md>>

NextSize ==
    \/ Clone \/ AssignField \/ ReplaceSlot \/ SetValue
    \/ GetField \/ CallToString \/ Resolve \/ DropResult \/ UseAfterFree

SpecSize == InitClone /\ [][NextSize]_vars

(***************************************************************************)
(* The metadata codec.  The header only declares toMetadata,               *)
(* createFromMetadata and the is...Metadata predicates; their layouts are  *)
(* those of the specification: every node is a tuple that starts with its  *)
(* discriminator string, a field with no information is an explicit null  *)
(* node, decode checks discriminator and arity and yields absent on a      *)
(* mismatch.                                                               *)
(***************************************************************************)
MDString(x) == [md |-> "string", s |-> x]
MDInt(i) == [md |-> "int", i |-> i]
MDBool(b) == [md |-> "bool", b |-> b]
MDTuple(ops) == [md |-> "tuple", ops |-> ops]
NullField == [md |-> "null"]

IsNullInputInfoField(n) == n.md = "null"

HasTag(n, tag, arity) ==
    /\ n.md = "tuple"
    /\ Len(n.ops) = arity + 1
    /\ n.ops[1] = MDString(tag)

createDoubleMDNode(v) == [md |-> "double", v |-> v]
IsDoubleMDNode(n) == n.md = "double"
retrieveDoubleMDNode(n) == n.v

CmpErrorValue(MaxTolerance, MayBeWrong) ==
    [kind |-> "CmpErrorInfo", MaxTolerance |-> MaxTolerance, MayBeWrong |-> MayBeWrong]

\* FPType::toMetadata: [tag, signedWidthField, fractionalBitsField]
FPTypeToMetadata(t) ==
    MDTuple(<<MDString("fixp"), MDInt(getSWidth(t)), MDInt(getPointPos(t))>>)

isFPTypeMetadata(n) ==
    /\ HasTag(n, "fixp", 2)
    /\ n.ops[2].md = "int" /\ n.ops[3].md = "int"

FPTypeFromMetadata(n) ==
    IF isFPTypeMetadata(n)
    THEN FPValue(FPTypeCtorI(n.ops[2].i, n.ops[3].i)) ELSE Absent

\* Range::toMetadata: [tag, minField, maxField]
RangeToMetadata(r) ==
    MDTuple(<<MDString("range"), createDoubleMDNode(r.Min), createDoubleMDNode(r.Max)>>)

isRangeMetadata(n) ==
    /\ HasTag(n, "range", 2)
    /\ IsDoubleMDNode(n.ops[2]) /\ IsDoubleMDNode(n.ops[3])

RangeFromMetadata(n) ==
    IF isRangeMetadata(n)
    THEN RangeValue(retrieveDoubleMDNode(n.ops[2]), retrieveDoubleMDNode(n.ops[3]))
    ELSE Absent

InitialErrorToMetadata_ZeroIsNull(Error) ==
    IF Error.v = 0 THEN NullField
    ELSE MDTuple(<<MDString("error"), createDoubleMDNode(Error.v)>>)

\* a real-valued leaf under a presence tag
InitialErrorToMetadata(Error) ==
    MDTuple(<<MDString("error"), createDoubleMDNode(Error.v)>>)

IsInitialErrorMetadata(n) == HasTag(n, "error", 1) /\ IsDoubleMDNode(n.ops[2])

CreateInitialErrorFromMetadata(n) ==
    IF IsInitialErrorMetadata(n)
    THEN DoubleValue(retrieveDoubleMDNode(n.ops[2])) ELSE Absent

\* CmpErrorInfo::toMetadata: a node of two fields
CmpErrorToMetadata(c) ==
    MDTuple(<<MDString("cmperr"), createDoubleMDNode(c.MaxTolerance),
              MDBool(c.MayBeWrong)>>)

CmpErrorFromMetadata(n) ==
    IF HasTag(n, "cmperr", 2) /\ IsDoubleMDNode(n.ops[2]) /\ n.ops[3].md = "bool"
    THEN CmpErrorValue(retrieveDoubleMDNode(n.ops[2]), n.ops[3].b) ELSE Absent

\* InputInfo::toMetadata: the three optional children, each a node or null
InputInfoToMetadata(f) ==
    MDTuple(<<MDString("scalar"),
              IF f.IType = Absent THEN NullField ELSE FPTypeToMetadata(f.IType),
              IF f.IRange = Absent THEN NullField ELSE RangeToMetadata(f.IRange),
              IF f.IError = Absent THEN NullField
              ELSE InitialErrorToMetadata(f.IError)>>)

isInputInfoMetadata(n) ==
    /\ HasTag(n, "scalar", 3)
    /\ IsNullInputInfoField(n.ops[2]) \/ isFPTypeMetadata(n.ops[2])
    /\ IsNullInputInfoField(n.ops[3]) \/ isRangeMetadata(n.ops[3])
    /\ IsNullInputInfoField(n.ops[4]) \/ IsInitialErrorMetadata(n.ops[4])

InputInfoFromMetadata(n) ==
    IF isInputInfoMetadata(n)
    THEN FieldValue(FPTypeFromMetadata(n.ops[2]), RangeFromMetadata(n.ops[3]),
                    CreateInitialErrorFromMetadata(n.ops[4]))
    ELSE Absent

RECURSIVE MDInfoToMetadata(_), MDInfoFromMetadata(_), isStructInfoMetadata(_)

\* StructInfo::toMetadata: one child per slot, each a node or null
StructInfoToMetadata(a) ==
    MDTuple(<<MDString("struct")>>
            \o [i \in 1..Len(a.Fields) |->
                  IF a.Fields[i] = Absent THEN NullField
                  ELSE MDInfoToMetadata(a.Fields[i])])

\* MDInfo::toMetadata, virtual
MDInfoToMetadata(v) ==
    IF v.kind = "K_Struct" THEN StructInfoToMetadata(v) ELSE InputInfoToMetadata(v)

isStructInfoMetadata(n) ==
    /\ n.md = "tuple" /\ Len(n.ops) >= 1 /\ n.ops[1] = MDString("struct")
    /\ \A i \in 2..Len(n.ops) :
          \/ IsNullInputInfoField(n.ops[i])
          \/ isInputInfoMetadata(n.ops[i])
          \/ isStructInfoMetadata(n.ops[i])

StructInfoFromMetadata(n) ==
    IF isStructInfoMetadata(n)
    THEN StructValue([i \in 1..(Len(n.ops) - 1) |-> MDInfoFromMetadata(n.ops[i + 1])])
    ELSE Absent

\* the chain of try-recognize steps over the annotation kinds
MDInfoFromMetadata(n) ==
    IF IsNullInputInfoField(n) THEN Absent
    ELSE IF isInputInfoMetadata(n) THEN InputInfoFromMetadata(n)
    ELSE StructInfoFromMetadata(n)

\* encode, by the kind of the entity
Encode(x) ==
    IF x.kind = "K_FPType" THEN FPTypeToMetadata(x)
    ELSE IF x.kind = "Range" THEN RangeToMetadata(x)
    ELSE IF x.kind = "double" THEN InitialErrorToMetadata(x)
    ELSE IF x.kind = "CmpErrorInfo" THEN CmpErrorToMetadata(x)
    ELSE MDInfoToMetadata(x)

\* decode, by the kind the caller expects
Decode(kind, n) ==
    IF kind = "K_FPType" THEN FPTypeFromMetadata(n)
    ELSE IF kind = "Range" THEN RangeFromMetadata(n)
    ELSE IF kind = "double" THEN CreateInitialErrorFromMetadata(n)
    ELSE IF kind = "CmpErrorInfo" THEN CmpErrorFromMetadata(n)
    ELSE MDInfoFromMetadata(n)

RECURSIVE StructurallyEqual(_, _)
\* structural equality; operator== of FPType for the types
StructurallyEqual(a, b) ==
    IF a.kind # b.kind THEN FALSE
    ELSE IF a.kind = "nil" THEN TRUE
    ELSE IF a.kind = "K_FPType" THEN FPEquals(a, b)
    ELSE IF a.kind = "Range" THEN a.Min = b.Min /\ a.Max = b.Max
    ELSE IF a.kind = "double" THEN a.v = b.v
    ELSE IF a.kind = "CmpErrorInfo"
    THEN a.MaxTolerance = b.MaxTolerance /\ a.MayBeWrong = b.MayBeWrong
    ELSE IF a.kind = "K_Field"
    THEN /\ StructurallyEqual(a.IType, b.IType)
         /\ StructurallyEqual(a.IRange, b.IRange)
         /\ StructurallyEqual(a.IError, b.IError)
    ELSE /\ Len(a.Fields) = Len(b.Fields)
         /\ \A i \in 1..Len(a.Fields) : StructurallyEqual(a.Fields[i], b.Fields[i])

(***************************************************************************)
(* Scenario Codec: an entity is encoded, the node decoded as the kind the  *)
(* caller expects.                                                         *)
(***************************************************************************)
CodecTypes == {FPValue(FPTypeCtorI(w, p)) : w \in {0 - 32, 0 - 1, 0, 16}, p \in {0, 16}}
CodecDoubles == {0 - 1, 0, 2}
CodecRanges == {RangeValue(a, b) : a, b \in CodecDoubles}
CodecErrors == {DoubleValue(v) : v \in CodecDoubles}
CodecCmpErrors == {CmpErrorValue(t, b) : t \in CodecDoubles, b \in BOOLEAN}
CodecFields ==
    {FieldValue(t, r, e) : t \in {Absent, TheType, OtherType},
                           r \in {Absent, TheRange, OtherRange},
                           e \in {Absent, TheError, OtherError}}
CodecLeaves ==
    {EmptyField, FieldValue(TheType, OtherRange, TheError),
     FieldValue(Absent, Absent, TheError)}
CodecStructs ==
    {v \in UNION {Matching(t, CodecLeaves) :
                    t \in UNION {TypesN(n) : n \in 1..MaxCodecNodes}} :
        v.kind = "K_Struct"}
CodecValues ==
    CodecTypes \cup CodecRanges \cup CodecErrors \cup CodecCmpErrors
        \cup CodecFields \cup CodecStructs
CodecKinds == {"K_FPType", "Range", "double", "CmpErrorInfo", "MDInfo"}
KindOf(x) == IF x.kind \in {"K_Field", "K_Struct"} THEN "MDInfo" ELSE x.kind

InitCodec ==
    /\ pc = "codec_start"
    /\ \E x \in CodecValues : args = [op |-> "codec", x |-> x, as |-> KindOf(x)]
    /\ md = NoMD
    /\ fp = NoFP /\ str = ""
    /\ heap = EmptyHeap /\ typ = ScalarTy /\ own = Null /\ res = Null
    /\ pre = EmptyHeap

\* md = x.toMetadata(C)
EncodeValue ==
    /\ pc = "codec_start"
    /\ md' = [tag |-> "encoded", node |-> Encode(args.x)]
    /\ pc' = "encoded"
    /\ UNCHANGED <<args, fp, str, heap, typ, own, res, pre>>

\* createFromMetadata of the kind the caller expects, on the node
DecodeNode ==
    /\ pc = "encoded"
    /\ \E k \in CodecKinds :
         /\ args' = [args EXCEPT !.as = k]
         /\ md' = [tag |-> "decoded", node |-> md.node, value |-> Decode(k, md.node)]
    /\ pc' = "decoded"
    /\ UNCHANGED <<fp, str, heap, typ, own, res, pre>>

NextCodec == EncodeValue \/ DecodeNode

SpecCodec == InitCodec /\ [][NextCodec]_vars

(***************************************************************************)
(* Claims about shape derivation and index resolution.                     *)
(***************************************************************************)
RECURSIVE ShapeAgrees(_, _, _)
\* the reference of C1: the node s leads to has the shape of type t
ShapeAgrees(h, s, t) ==
    IF Len(t.e) = 0 THEN s = Null
    ELSE IF t.k = "struct"
    THEN /\ Alive(h, s)
         /\ h.obj[Get(h, s)].kind = "K_Struct"
         /\ Len(h.obj[Get(h, s)].Fields) = Len(t.e)
         /\ \A i \in 1..Len(t.e) :
                ShapeAgrees(h, h.obj[Get(h, s)].Fields[i], t.e[i])
    ELSE ShapeAgrees(h, s, t.e[1])

\* C1: constructFromLLVMType agrees with the reference on every type of the
\* bounded set: no contained element gives absent; a struct-like type with N
\* elements gives an aggregate of exactly N slots, slot i having the shape of
\* element i; a non-struct container gives the shape of its element, unwrapped.
C1_ShapeDerivation ==
    (pc = "ready" /\ args.n = 0) =>
        heap.ub = "none" /\ ShapeAgrees(heap, own, typ)

C1_Witness ==
    /\ pc = "ready" /\ args.n = 0
    /\ typ = ArrayTy(StructTy(<<ScalarTy, StructTy(<<ScalarTy>>)>>))
    /\ ValueOf(heap, own) = StructValue(<<Absent, StructValue(<<Absent>>)>>)

RECURSIVE ValidPath(_, _), TypeAt(_, _)
\* every index of the path is below the number of contained types it meets
ValidPath(t, p) ==
    p = << >> \/ (Head(p) < Len(t.e) /\ ValidPath(t.e[Head(p) + 1], Tail(p)))
TypeAt(t, p) == IF p = << >> THEN t ELSE TypeAt(t.e[Head(p) + 1], Tail(p))

\* C10: for every type T whose skeleton A = constructFromLLVMType(T) is not
\* absent and every index path valid for T, A.resolveFromIndexList(T, path)
\* runs without a bad downcast or an out-of-range slot and returns a node with
\* the shape constructFromLLVMType yields for the type the path reaches.
C10_ResolveMatchesShape ==
    (args.op = "resolve" /\ args.n = 1 /\ pc \in {"resolved", "aborted"}
        /\ ValidPath(typ, args.path)) =>
        /\ pc = "resolved"
        /\ heap.ub = "none"
        /\ ShapeAgrees(heap, res, TypeAt(typ, args.path))


RECURSIVE ManualDescent(_, _, _), StaysInStructs(_, _, _, _)
\* descending by hand: the address reached from shared_ptr s slot by slot
ManualDescent(h, s, p) ==
    IF s = Null THEN Null
    ELSE IF p = << >> THEN Get(h, s)
    ELSE ManualDescent(h, getField(h, Get(h, s), Head(p)), Tail(p))
\* the path meets struct-like types only, with indices below their element
\* counts, up to its end or to the first absent slot
StaysInStructs(h, s, t, p) ==
    \/ p = << >>
    \/ s = Null
    \/ /\ t.k = "struct"
       /\ Head(p) < Len(t.e)
       /\ StaysInStructs(h, getField(h, Get(h, s), Head(p)),
                         t.e[Head(p) + 1], Tail(p))

Returned == args.op = "resolve" /\ args.n = 1 /\ pc \in {"resolved", "aborted"}

\* C2: for every struct-like type, every aggregate annotation matching it and
\* every path staying inside struct-like types, resolveFromIndexList returns
\* the very node that descending slot by slot reaches, and absent once a slot
\* on the way is absent, whatever indices remain.
C2_ResolveIsManualDescent ==
    (Returned /\ typ.k = "struct" /\ StaysInStructs(pre, own, typ, args.path)) =>
        /\ pc = "resolved"
        /\ heap.ub = "none"
        /\ Get(heap, res) = ManualDescent(pre, own, args.path)
        /\ res # Null => Alive(heap, res)

RECURSIVE OnlyNonStructSteps(_, _)
\* every index of the path is applied to a non-struct container; an index at
\* or above the number of contained types can only be the last one
OnlyNonStructSteps(t, p) ==
    \/ p = << >>
    \/ /\ t.k = "array"
       /\ IF Head(p) < Len(t.e)
          THEN OnlyNonStructSteps(t.e[Head(p) + 1], Tail(p))
          ELSE Tail(p) = << >>

\* C3: when the type passed is array-like, each index advances the type only,
\* for every index value; for a path of such steps the call completes without
\* a fatal error and returns the aggregate it was called on.
C3_NonStructStepsKeepNode ==
    (Returned /\ args.path # << >> /\ OnlyNonStructSteps(typ, args.path)) =>
        /\ pc = "resolved"
        /\ heap.ub = "none"
        /\ Get(heap, res) = Get(pre, own)

\* C8: resolveFromIndexList only reads its receiver: for every path (valid
\* for the type: empty, through structs, through arrays), after the call, and after
\* the caller drops what it returned, the receiver is alive (the caller still
\* holds it), its slots hold the nodes they held, nothing undefined happened,
\* and the same call again returns the same node.
C8_ReceiverUntouched ==
    (args.op = "resolve" /\ ValidPath(typ, args.path)) =>
        /\ pc \notin {"aborted", "crashed"}
        /\ heap.ub = "none"
        /\ Alive(heap, own)
        /\ heap.obj[Get(heap, own)] = pre.obj[Get(pre, own)]
        /\ (args.n = 2 /\ pc = "resolved") => Get(heap, res) = args.prev

(***************************************************************************)
(* Claims about clone() and the slot count.                                *)
(***************************************************************************)
SourceAsBefore ==
    /\ ValueOf(heap, own) = ValueOf(pre, own)
    /\ \A a \in Reach(pre, own) : a \in DOMAIN heap.obj /\ heap.obj[a] = pre.obj[a]

\* C4: clone() is a deep, independent copy for both kinds: the clone has the
\* kind, slot count, presence pattern and values of the source, shares no
\* node, NumericType, Range or error with it, and after any sequence of
\* reassignments, slot replacements or in-place changes applied to the clone
\* the source is as it was.
C4_CloneIsDeepCopy ==
    pc = "cloned" =>
        /\ heap.ub = "none"
        /\ Alive(heap, res)
        /\ args.op = "clone" =>
              /\ ValueOf(heap, res) = ValueOf(pre, own)
              /\ Reach(heap, res) \cap Reach(heap, own) = {}
        /\ SourceAsBefore

C4_Witness ==
    /\ pc = "cloned" /\ args.op = "setvalue" /\ args.m = 2
    /\ heap.obj[Get(heap, own)].kind = "K_Struct"
    /\ ValueOf(heap, res) # ValueOf(heap, own)
    /\ SourceAsBefore

StepKeepsSizes ==
    \A a \in DOMAIN heap.obj \cap DOMAIN heap'.obj :
        heap.obj[a].kind = "K_Struct" =>
            /\ heap'.obj[a].kind = "K_Struct"
            /\ size(heap', a) = size(heap, a)

CloneHasSizeOfSource ==
    (pc = "cloned" /\ heap.obj[Get(heap, own)].kind = "K_Struct") =>
        /\ heap.obj[Get(heap, res)].kind = "K_Struct"
        /\ size(heap, Get(heap, res)) = size(heap, Get(heap, own))

\* C7: the slot count of an aggregate is fixed at construction: no step of
\* getField, slot replacement, clone, toString or resolveFromIndexList changes
\* size() of an aggregate, and a clone has the size() of its source.
C7_SizeFixed == [][StepKeepsSizes]_vars /\ []CloneHasSizeOfSource

C7_Witness ==
    /\ pc = "cloned" /\ args.op = "replace"
    /\ heap.obj[Get(heap, own)].kind = "K_Struct"
    /\ size(heap, Get(heap, own)) = 2
    /\ size(heap, Get(heap, res)) = 2
    /\ ValueOf(heap, res) # ValueOf(heap, own)

(***************************************************************************)
(* Claims about the codec.                                                 *)
(***************************************************************************)
\* C5: decode(encode(x)) is structurally equal to x for every NumericType,
\* Range (inverted ones too), error, ScalarAnnotation, AggregateAnnotation and
\* CmpErrorInfo of the set; a scalar with type, range and error all absent
\* decodes with all three absent, and an error present with value 0 decodes
\* as present with value 0.
C5_RoundTrip ==
    (pc = "decoded" /\ args.as = KindOf(args.x)) =>
        /\ StructurallyEqual(md.value, args.x)
        /\ args.x = EmptyField =>
              /\ md.value.IType = Absent
              /\ md.value.IRange = Absent
              /\ md.value.IError = Absent
        /\ (args.x.kind = "K_Field" /\ args.x.IError = DoubleValue(0)) =>
              md.value.IError = DoubleValue(0)

C5_Witness ==
    /\ pc = "decoded" /\ args.as = "MDInfo"
    /\ args.x.kind = "K_Struct" /\ Len(args.x.Fields) = 2
    /\ args.x.Fields[1] = Absent
    /\ args.x.Fields[2] = FieldValue(Absent, Absent, DoubleValue(0))
    /\ md.value = args.x

(***************************************************************************)
(* Claims about FPType.                                                    *)
(***************************************************************************)
RECURSIVE NatNumeral(_)
NatNumeral(n) ==
    IF n < 10 THEN DigitChar(n) ELSE NatNumeral(n \div 10) \o DigitChar(n % 10)

IntNumeral(n) == IF n < 0 THEN "-" \o NatNumeral(0 - n) ELSE NatNumeral(n)

RefToString(w, f) ==
    (IF w < 0 THEN "s" ELSE "u") \o IntNumeral(Abs(w) - f) \o "_"
        \o NatNumeral(f) \o "fixp"

\* C6: for every sign-encoded width w and fractionalBits f, also f > |w| and
\* w = 0, toString() is the sign prefix, the decimal numeral of |w| - f, '_',
\* the decimal numeral of f, 'fixp'.
C6_ToStringIsReference ==
    pc = "fp_printed" => str = RefToString(fp.Width, fp.PointPos)

\* C9: a FixedPoint built from (unsigned W, P, Signed S), for every W from 0
\* on, reports isSigned() = S, getWidth() = W, getPointPos() = P, and stores
\* -W when S and W otherwise.
C9_SignEncodingAllWidths ==
    (pc = "fp_built" /\ args.op = "FPTypeU") =>
        /\ isSigned(fp) = args.S
        /\ getWidth(fp) = args.W
        /\ getPointPos(fp) = args.P
        /\ getSWidth(fp) = (IF args.S THEN 0 - args.W ELSE args.W)

\* C9 as amended: the same for every W >= 1; for W = 0 the stored width is 0
\* and isSigned() is false whatever S is.
C9_SignEncoding ==
    (pc = "fp_built" /\ args.op = "FPTypeU") =>
        /\ getWidth(fp) = args.W
        /\ getPointPos(fp) = args.P
        /\ getSWidth(fp) = (IF args.S THEN 0 - args.W ELSE args.W)
        /\ args.W >= 1 => isSigned(fp) = args.S
        /\ args.W = 0 => ~isSigned(fp)

C9_Witness ==
    /\ pc = "fp_built" /\ args.op = "FPTypeU"
    /\ args.W = 32 /\ args.S /\ args.P = 16
    /\ isSigned(fp) /\ getSWidth(fp) = 0 - 32

=============================================================================
